---- MODULE Spec2Model ----
(***************************************************************************)
(* Model of src/ml/inference/rep_counter.py: the RepCounter session state, *)
(* its per-frame update (landmark conversion, posture analysis, the        *)
(* per-exercise phase machines), reset and get_statistics.                 *)
(*                                                                         *)
(* Numbers.  The program computes in binary floating point; the model      *)
(* computes exactly, in fixed point:                                       *)
(*   - visibility is in tenths            (0.5 is 5);                      *)
(*   - a landmark's y is in hundredths    (0.42 is 42);                    *)
(*   - the average ankle height, the baseline and the displacement are in  *)
(*     two-hundredths, so that (l.y + r.y) / 2 is exact (0.1 is 20,        *)
(*     -0.05 is -10, 0.02 is 4);                                           *)
(*   - an angle is a whole number of degrees or NaN, as a record           *)
(*     [nan, v] (TLC does not compare an integer with another kind of      *)
(*     value).                                                             *)
(***************************************************************************)
EXTENDS Integers, Sequences, FiniteSets, TLC

VARIABLES
    exercise_type,          \* self.exercise_type, or NoCounter when __init__ raised
    confidence_threshold,   \* self.confidence_threshold (tenths)
    rep_count,              \* self.rep_count
    current_phase,          \* self.current_phase
    phase_history,          \* self.phase_history
    thresholds,             \* self.thresholds
    baseline_y,             \* self.baseline_y: [has |-> FALSE] while the attribute does not exist
    mp_landmarks,           \* the argument of the last call of update
    ret,                    \* what the last call returned
    script_pos,             \* how many frames of SquatScript the calls so far have fed
    twin,                   \* a second counter of the same kind, or NoTwin
    tally                   \* the calls of update since construction or reset, or NoTally

vars == <<exercise_type, confidence_threshold, rep_count, current_phase,
          phase_history, thresholds, baseline_y, mp_landmarks, ret, script_pos,
          twin, tally>>

-----------------------------------------------------------------------------
(* Bounds of the model *)

\* update is not called any more once rep_count has reached MaxReps
MaxReps == 2

-----------------------------------------------------------------------------
(* Enumerations *)

SQUAT == "squat"
PUSHUP == "pushup"
JUMP == "jump"
PULLUP == "pullup"
ExerciseType == {SQUAT, PUSHUP, JUMP, PULLUP}

NEUTRAL == "neutral"
DOWN == "down"
UP == "up"
EXTENDED == "extended"
ExercisePhase == {NEUTRAL, DOWN, UP, EXTENDED}

NoCounter == "ValueError"

-----------------------------------------------------------------------------
(* Floating point angles *)

NaN == [nan |-> TRUE, v |-> 0]
Deg(n) == [nan |-> FALSE, v |-> n]

\* a < b and a > b on floats: a comparison with NaN is false
Lt(a, n) == (~a.nan) /\ a.v < n
Gt(a, n) == (~a.nan) /\ a.v > n

-----------------------------------------------------------------------------
(* Frames: what the pose detector hands to update *)

\* the names of landmark_names that the counting code reads
Joints == {"left_shoulder", "left_elbow", "left_wrist", "left_hip",
           "left_knee", "left_ankle", "right_ankle"}

\* the position of a name in landmark_names
NameIndex(j) ==
    CASE j = "left_shoulder" -> 11
      [] j = "left_elbow"    -> 13
      [] j = "left_wrist"    -> 15
      [] j = "left_hip"      -> 23
      [] j = "left_knee"     -> 25
      [] j = "left_ankle"    -> 27
      [] j = "right_ankle"   -> 28

\* len(landmark_names)
NumNames == 33

\* A frame of the pose detector: n landmarks in the order of landmark_names
\* (0 is also mp_landmarks = None), the visibility of each joint (0.5, not
\* usable, for the joints of low and 0.9 for the others), the angle at the
\* middle joint of (hip, knee, ankle) and of (shoulder, elbow, wrist), the
\* angle at the hip of (shoulder, hip, knee), and the heights of the ankles.
Frame(n, low, bend, lean, ly, ry) ==
    [n |-> n, vis |-> [j \in Joints |-> IF j \in low THEN 5 ELSE 9],
     bend |-> bend, lean |-> lean, ly |-> ly, ry |-> ry]

\* the pose of a body at rest
Rest == [bend |-> Deg(170), lean |-> Deg(170), y |-> 50]

BendAngles == {NaN, Deg(40), Deg(60), Deg(70), Deg(90), Deg(100), Deg(110),
               Deg(160), Deg(170), Deg(175)}
LeanAngles == {Deg(150), Deg(170)}

\* heights of the left and the right ankle: around the rest height 0.50
\* (averages 0.39, 0.40, 0.48, 0.495, 0.50, 0.51, 0.52, 0.55, 0.56)
AnklePairs == {<<50, 50>>, <<38, 40>>, <<40, 40>>, <<48, 48>>, <<49, 50>>,
               <<50, 52>>, <<52, 52>>, <<55, 55>>, <<56, 56>>}

\* too short a landmark list, or one joint of low visibility
Faults == {<<n, {}>> : n \in {0, 12, 24, 28}} \cup {<<NumNames, {j}>> : j \in Joints}
AnkleFaults == {<<28, {}>>, <<NumNames, {"left_ankle"}>>, <<NumNames, {"right_ankle"}>>}

\* the body moves in full view; or it is at the bottom or at the top of a
\* repetition in a faulty frame; or the ankles move in full view; or they
\* are in the air or on the ground in a faulty frame
Frames ==
    {Frame(NumNames, {}, b, l, Rest.y, Rest.y) : b \in BendAngles, l \in LeanAngles}
    \cup {Frame(NumNames, {}, b, Deg(160), Rest.y, Rest.y) : b \in {Deg(60), Deg(170)}}
    \cup {Frame(f[1], f[2], b, Rest.lean, Rest.y, Rest.y) :
             f \in Faults, b \in {Deg(60), Deg(170)}}
    \cup {Frame(NumNames, {}, Rest.bend, Rest.lean, p[1], p[2]) : p \in AnklePairs}
    \cup {Frame(f[1], f[2], Rest.bend, Rest.lean, p[1], p[2]) :
             f \in AnkleFaults, p \in {<<38, 40>>, <<56, 56>>}}

\* no call of update yet
NoFrame == [n |-> 0, vis |-> [j \in Joints |-> 9], bend |-> Rest.bend,
            lean |-> Rest.lean, ly |-> Rest.y, ry |-> Rest.y]

-----------------------------------------------------------------------------
(* The landmark dictionary *)

Present(mp, j) == NameIndex(j) < mp.n /\ NameIndex(j) < NumNames

\* _mediapipe_to_landmarks: the names the dictionary holds and, for each, the
\* landmark: the point it is at, its height and its visibility
mediapipe_to_landmarks(mp) ==
    [j \in {k \in Joints : Present(mp, k)} |->
        [at |-> j,
         y |-> IF j = "left_ankle" THEN mp.ly ELSE IF j = "right_ankle" THEN mp.ry ELSE Rest.y,
         visibility |-> mp.vis[j]]]

\* `not landmarks`: the dictionary is empty (no landmark at all was reported)
IsEmpty(mp) == mp.n = 0

\* calculate_angle: the rays b->a and b->c; a ray of length 0 makes the
\* cosine 0/0, which numpy evaluates to nan (a warning, not an exception),
\* and clip, arccos and degrees keep nan
calculate_angle(mp, p1, p2, p3) ==
    IF p1.at = p2.at \/ p3.at = p2.at THEN NaN
    ELSE IF <<p1.at, p2.at, p3.at>> = <<"left_shoulder", "left_hip", "left_knee">>
         THEN mp.lean
         ELSE mp.bend

-----------------------------------------------------------------------------
(* PostureAnalyzer *)

\* Usable with >= for >: a visibility of exactly 0.5 passes
Usable_at_half(landmarks, lm) == lm \in DOMAIN landmarks /\ landmarks[lm].visibility >= 5

\* landmarks.get(lm) and landmarks[lm].visibility > 0.5
Usable(landmarks, lm) == lm \in DOMAIN landmarks /\ landmarks[lm].visibility > 5

NotVisible == [score |-> 0, errors |-> <<"Pose not clearly visible">>]

Max(a, b) == IF a >= b THEN a ELSE b

\* analyze_squat_posture with the back check as a further elif of the knee
\* checks: no back deduction on a frame that has a knee deduction
analyze_squat_posture_exclusive(mp, landmarks) ==
    LET required_landmarks == {"left_hip", "left_knee", "left_ankle", "left_shoulder"}
    IN  IF ~(\A lm \in required_landmarks : Usable(landmarks, lm)) THEN NotVisible
        ELSE
        LET knee_angle == calculate_angle(mp, landmarks["left_hip"],
                                          landmarks["left_knee"], landmarks["left_ankle"])
            back_angle == calculate_angle(mp, landmarks["left_shoulder"],
                                          landmarks["left_hip"], landmarks["left_knee"])
        IN  IF Lt(knee_angle, 70)
            THEN [score |-> 90, errors |-> <<"Squat too deep">>,
                  knee_angle |-> knee_angle, back_angle |-> back_angle]
            ELSE IF Gt(knee_angle, 160)
            THEN [score |-> 85, errors |-> <<"Squat not deep enough">>,
                  knee_angle |-> knee_angle, back_angle |-> back_angle]
            ELSE IF Lt(back_angle, 160)
            THEN [score |-> 80, errors |-> <<"Back bent forward">>,
                  knee_angle |-> knee_angle, back_angle |-> back_angle]
            ELSE [score |-> 100, errors |-> <<>>,
                  knee_angle |-> knee_angle, back_angle |-> back_angle]

analyze_squat_posture(mp, landmarks) ==
    LET required_landmarks == {"left_hip", "left_knee", "left_ankle", "left_shoulder"}
    IN  IF ~(\A lm \in required_landmarks : Usable(landmarks, lm)) THEN NotVisible
        ELSE
        LET knee_angle == calculate_angle(mp, landmarks["left_hip"],
                                          landmarks["left_knee"], landmarks["left_ankle"])
            e1 == IF Lt(knee_angle, 70) THEN <<"Squat too deep">>
                  ELSE IF Gt(knee_angle, 160) THEN <<"Squat not deep enough">>
                  ELSE <<>>
            s1 == IF Lt(knee_angle, 70) THEN 100 - 10
                  ELSE IF Gt(knee_angle, 160) THEN 100 - 15
                  ELSE 100
            back_angle == calculate_angle(mp, landmarks["left_shoulder"],
                                          landmarks["left_hip"], landmarks["left_knee"])
            e2 == IF Lt(back_angle, 160) THEN e1 \o <<"Back bent forward">> ELSE e1
            s2 == IF Lt(back_angle, 160) THEN s1 - 20 ELSE s1
        IN  [score |-> Max(0, s2), errors |-> e2,
             knee_angle |-> knee_angle, back_angle |-> back_angle]

\* analyze_pushup_posture with += for -= in the first deduction
analyze_pushup_posture_adds(mp, landmarks) ==
    LET required_landmarks == {"left_shoulder", "left_elbow", "left_wrist", "left_hip"}
    IN  IF ~(\A lm \in required_landmarks : Usable(landmarks, lm)) THEN NotVisible
        ELSE
        LET elbow_angle == calculate_angle(mp, landmarks["left_shoulder"],
                                           landmarks["left_elbow"], landmarks["left_wrist"])
            e1 == IF Gt(elbow_angle, 170) THEN <<"Lower chest closer to ground">>
                  ELSE IF Lt(elbow_angle, 45) THEN <<"Chest too close to ground">>
                  ELSE <<>>
            s1 == IF Gt(elbow_angle, 170) THEN 100 + 15
                  ELSE IF Lt(elbow_angle, 45) THEN 100 - 10
                  ELSE 100
            body_angle == calculate_angle(mp, landmarks["left_shoulder"],
                              landmarks["left_hip"],
                              IF "left_knee" \in DOMAIN landmarks
                              THEN landmarks["left_knee"] ELSE landmarks["left_hip"])
            e2 == IF Lt(body_angle, 160) THEN e1 \o <<"Keep body in straight line">> ELSE e1
            s2 == IF Lt(body_angle, 160) THEN s1 - 20 ELSE s1
        IN  [score |-> Max(0, s2), errors |-> e2,
             elbow_angle |-> elbow_angle, body_angle |-> body_angle]

analyze_pushup_posture(mp, landmarks) ==
    LET required_landmarks == {"left_shoulder", "left_elbow", "left_wrist", "left_hip"}
    IN  IF ~(\A lm \in required_landmarks : Usable(landmarks, lm)) THEN NotVisible
        ELSE
        LET elbow_angle == calculate_angle(mp, landmarks["left_shoulder"],
                                           landmarks["left_elbow"], landmarks["left_wrist"])
            e1 == IF Gt(elbow_angle, 170) THEN <<"Lower chest closer to ground">>
                  ELSE IF Lt(elbow_angle, 45) THEN <<"Chest too close to ground">>
                  ELSE <<>>
            s1 == IF Gt(elbow_angle, 170) THEN 100 - 15
                  ELSE IF Lt(elbow_angle, 45) THEN 100 - 10
                  ELSE 100
            body_angle == calculate_angle(mp, landmarks["left_shoulder"],
                              landmarks["left_hip"],
                              IF "left_knee" \in DOMAIN landmarks
                              THEN landmarks["left_knee"] ELSE landmarks["left_hip"])
            e2 == IF Lt(body_angle, 160) THEN e1 \o <<"Keep body in straight line">> ELSE e1
            s2 == IF Lt(body_angle, 160) THEN s1 - 20 ELSE s1
        IN  [score |-> Max(0, s2), errors |-> e2,
             elbow_angle |-> elbow_angle, body_angle |-> body_angle]

-----------------------------------------------------------------------------
(* RepCounter *)

NoBaseline == [has |-> FALSE, v |-> 0]
Baseline(y) == [has |-> TRUE, v |-> y]

\* an empty dict
EmptyDict == <<>>

\* get_exercise_thresholds with the squat profile copied to the push-up
get_exercise_thresholds_copied(et) ==
    CASE et = SQUAT  -> [down_threshold |-> 110, up_threshold |-> 160, min_hold_frames |-> 3]
      [] et = PUSHUP -> [down_threshold |-> 110, up_threshold |-> 160, min_hold_frames |-> 3]
      [] et = JUMP   -> [up_threshold |-> 20, down_threshold |-> -10, min_hold_frames |-> 2]
      [] OTHER       -> EmptyDict

\* _get_exercise_thresholds: thresholds.get(self.exercise_type, {}); the
\* jump thresholds 0.1 and -0.05 in two-hundredths
get_exercise_thresholds(et) ==
    CASE et = SQUAT  -> [down_threshold |-> 110, up_threshold |-> 160, min_hold_frames |-> 3]
      [] et = PUSHUP -> [down_threshold |-> 90, up_threshold |-> 160, min_hold_frames |-> 2]
      [] et = JUMP   -> [up_threshold |-> 20, down_threshold |-> -10, min_hold_frames |-> 2]
      [] OTHER       -> EmptyDict

\* squat_machine with the count cleared when the cycle returns to NEUTRAL
squat_machine_clears(phase, count, knee_angle, th) ==
    CASE phase = NEUTRAL /\ Lt(knee_angle, th.down_threshold) ->
            [current_phase |-> DOWN, rep_count |-> count]
      [] phase = DOWN /\ Gt(knee_angle, th.up_threshold) ->
            [current_phase |-> UP, rep_count |-> count + 1]
      [] phase = UP /\ Gt(knee_angle, th.up_threshold) ->
            [current_phase |-> NEUTRAL, rep_count |-> 0]
      [] OTHER -> [current_phase |-> phase, rep_count |-> count]

\* squat_machine with <= and >= for < and >
squat_machine_nonstrict(phase, count, knee_angle, th) ==
    CASE phase = NEUTRAL /\ ~Gt(knee_angle, th.down_threshold) /\ ~knee_angle.nan ->
            [current_phase |-> DOWN, rep_count |-> count]
      [] phase = DOWN /\ ~Lt(knee_angle, th.up_threshold) /\ ~knee_angle.nan ->
            [current_phase |-> UP, rep_count |-> count + 1]
      [] phase = UP /\ ~Lt(knee_angle, th.up_threshold) /\ ~knee_angle.nan ->
            [current_phase |-> NEUTRAL, rep_count |-> count]
      [] OTHER -> [current_phase |-> phase, rep_count |-> count]

\* squat_machine with the repetition counted on the return to NEUTRAL
squat_machine_counts_on_neutral(phase, count, knee_angle, th) ==
    CASE phase = NEUTRAL /\ Lt(knee_angle, th.down_threshold) ->
            [current_phase |-> DOWN, rep_count |-> count]
      [] phase = DOWN /\ Gt(knee_angle, th.up_threshold) ->
            [current_phase |-> UP, rep_count |-> count]
      [] phase = UP /\ Gt(knee_angle, th.up_threshold) ->
            [current_phase |-> NEUTRAL, rep_count |-> count + 1]
      [] OTHER -> [current_phase |-> phase, rep_count |-> count]

\* the state machine of _count_squats: the phase and the count after it
squat_machine(phase, count, knee_angle, th) ==
    CASE phase = NEUTRAL ->
            IF Lt(knee_angle, th.down_threshold)
            THEN [current_phase |-> DOWN, rep_count |-> count]
            ELSE [current_phase |-> phase, rep_count |-> count]
      [] phase = DOWN ->
            IF Gt(knee_angle, th.up_threshold)
            THEN [current_phase |-> UP, rep_count |-> count + 1]
            ELSE [current_phase |-> phase, rep_count |-> count]
      [] phase = UP ->
            IF Gt(knee_angle, th.up_threshold)
            THEN [current_phase |-> NEUTRAL, rep_count |-> count]
            ELSE [current_phase |-> phase, rep_count |-> count]
      [] OTHER -> [current_phase |-> phase, rep_count |-> count]

\* pushup_machine with `if` for `elif`: the UP branch runs in the call that
\* entered UP
pushup_machine_fallthrough(phase, count, elbow_angle, th) ==
    CASE phase = NEUTRAL /\ Lt(elbow_angle, th.down_threshold) ->
            [current_phase |-> DOWN, rep_count |-> count]
      [] phase = DOWN /\ Gt(elbow_angle, th.up_threshold) ->
            [current_phase |-> NEUTRAL, rep_count |-> count + 1]
      [] phase = UP /\ Gt(elbow_angle, th.up_threshold) ->
            [current_phase |-> NEUTRAL, rep_count |-> count]
      [] OTHER -> [current_phase |-> phase, rep_count |-> count]

\* pushup_machine with <= and >= for < and >: the threshold values
\* themselves cause the transitions
pushup_machine_nonstrict(phase, count, elbow_angle, th) ==
    CASE phase = NEUTRAL ->
            IF ~elbow_angle.nan /\ elbow_angle.v <= th.down_threshold
            THEN [current_phase |-> DOWN, rep_count |-> count]
            ELSE [current_phase |-> phase, rep_count |-> count]
      [] phase = DOWN ->
            IF ~elbow_angle.nan /\ elbow_angle.v >= th.up_threshold
            THEN [current_phase |-> UP, rep_count |-> count + 1]
            ELSE [current_phase |-> phase, rep_count |-> count]
      [] phase = UP ->
            IF ~elbow_angle.nan /\ elbow_angle.v >= th.up_threshold
            THEN [current_phase |-> NEUTRAL, rep_count |-> count]
            ELSE [current_phase |-> phase, rep_count |-> count]
      [] OTHER -> [current_phase |-> phase, rep_count |-> count]

\* pushup_machine that goes from UP straight to DOWN on an angle below the
\* down threshold, without passing through NEUTRAL
pushup_machine_recounts(phase, count, elbow_angle, th) ==
    CASE phase = NEUTRAL ->
            IF Lt(elbow_angle, th.down_threshold)
            THEN [current_phase |-> DOWN, rep_count |-> count]
            ELSE [current_phase |-> phase, rep_count |-> count]
      [] phase = DOWN ->
            IF Gt(elbow_angle, th.up_threshold)
            THEN [current_phase |-> UP, rep_count |-> count + 1]
            ELSE [current_phase |-> phase, rep_count |-> count]
      [] phase = UP ->
            IF Gt(elbow_angle, th.up_threshold)
            THEN [current_phase |-> NEUTRAL, rep_count |-> count]
            ELSE IF Lt(elbow_angle, th.down_threshold)
            THEN [current_phase |-> DOWN, rep_count |-> count]
            ELSE [current_phase |-> phase, rep_count |-> count]
      [] OTHER -> [current_phase |-> phase, rep_count |-> count]

\* the state machine of _count_pushups
pushup_machine(phase, count, elbow_angle, th) ==
    CASE phase = NEUTRAL ->
            IF Lt(elbow_angle, th.down_threshold)
            THEN [current_phase |-> DOWN, rep_count |-> count]
            ELSE [current_phase |-> phase, rep_count |-> count]
      [] phase = DOWN ->
            IF Gt(elbow_angle, th.up_threshold)
            THEN [current_phase |-> UP, rep_count |-> count + 1]
            ELSE [current_phase |-> phase, rep_count |-> count]
      [] phase = UP ->
            IF Gt(elbow_angle, th.up_threshold)
            THEN [current_phase |-> NEUTRAL, rep_count |-> count]
            ELSE [current_phase |-> phase, rep_count |-> count]
      [] OTHER -> [current_phase |-> phase, rep_count |-> count]

Abs(x) == IF x < 0 THEN -x ELSE x

\* jump_machine with the repetition counted on the return to NEUTRAL
jump_machine_counts_on_neutral(phase, count, displacement, th) ==
    CASE phase = NEUTRAL /\ displacement > th.up_threshold ->
            [current_phase |-> UP, rep_count |-> count]
      [] phase = UP /\ displacement < th.down_threshold ->
            [current_phase |-> DOWN, rep_count |-> count]
      [] phase = DOWN /\ Abs(displacement) < 4 ->
            [current_phase |-> NEUTRAL, rep_count |-> count + 1]
      [] OTHER -> [current_phase |-> phase, rep_count |-> count]

\* jump_machine with the landing threshold for the fixed 0.02
jump_machine_threshold_eps(phase, count, displacement, th) ==
    CASE phase = NEUTRAL /\ displacement > th.up_threshold ->
            [current_phase |-> UP, rep_count |-> count]
      [] phase = UP /\ displacement < th.down_threshold ->
            [current_phase |-> DOWN, rep_count |-> count + 1]
      [] phase = DOWN /\ Abs(displacement) < Abs(th.down_threshold) ->
            [current_phase |-> NEUTRAL, rep_count |-> count]
      [] OTHER -> [current_phase |-> phase, rep_count |-> count]

\* the state machine of _count_jumps; 0.02 is 4 two-hundredths
\* jump_machine whose take-off enters EXTENDED instead of UP
jump_machine_extended(phase, count, displacement, th) ==
    CASE phase = NEUTRAL ->
            IF displacement > th.up_threshold
            THEN [current_phase |-> EXTENDED, rep_count |-> count]
            ELSE [current_phase |-> phase, rep_count |-> count]
      [] phase = UP ->
            IF displacement < th.down_threshold
            THEN [current_phase |-> DOWN, rep_count |-> count + 1]
            ELSE [current_phase |-> phase, rep_count |-> count]
      [] phase = DOWN ->
            IF Abs(displacement) < 4
            THEN [current_phase |-> NEUTRAL, rep_count |-> count]
            ELSE [current_phase |-> phase, rep_count |-> count]
      [] OTHER -> [current_phase |-> phase, rep_count |-> count]

jump_machine(phase, count, displacement, th) ==
    CASE phase = NEUTRAL ->
            IF displacement > th.up_threshold
            THEN [current_phase |-> UP, rep_count |-> count]
            ELSE [current_phase |-> phase, rep_count |-> count]
      [] phase = UP ->
            IF displacement < th.down_threshold
            THEN [current_phase |-> DOWN, rep_count |-> count + 1]
            ELSE [current_phase |-> phase, rep_count |-> count]
      [] phase = DOWN ->
            IF Abs(displacement) < 4
            THEN [current_phase |-> NEUTRAL, rep_count |-> count]
            ELSE [current_phase |-> phase, rep_count |-> count]
      [] OTHER -> [current_phase |-> phase, rep_count |-> count]

\* _count_squats: the session after the call and the analysis it returns
count_squats(phase, count, base, th, mp, landmarks) ==
    LET analysis == analyze_squat_posture(mp, landmarks)
    IN  IF "knee_angle" \notin DOMAIN analysis
        THEN [rep_count |-> count, current_phase |-> phase, baseline_y |-> base,
              analysis |-> analysis]
        ELSE LET m == squat_machine(phase, count, analysis.knee_angle, th)
             IN  [rep_count |-> m.rep_count, current_phase |-> m.current_phase,
                  baseline_y |-> base,
                  analysis |-> [rep_count |-> m.rep_count, phase |-> m.current_phase]
                               @@ analysis]

\* _count_pushups
count_pushups(phase, count, base, th, mp, landmarks) ==
    LET analysis == analyze_pushup_posture(mp, landmarks)
    IN  IF "elbow_angle" \notin DOMAIN analysis
        THEN [rep_count |-> count, current_phase |-> phase, baseline_y |-> base,
              analysis |-> analysis]
        ELSE LET m == pushup_machine(phase, count, analysis.elbow_angle, th)
             IN  [rep_count |-> m.rep_count, current_phase |-> m.current_phase,
                  baseline_y |-> base,
                  analysis |-> [rep_count |-> m.rep_count, phase |-> m.current_phase]
                               @@ analysis]

\* 'left_ankle' not in landmarks or 'right_ankle' not in landmarks
AnkleMissing(landmarks) ==
    "left_ankle" \notin DOMAIN landmarks \/ "right_ankle" \notin DOMAIN landmarks

\* _count_jumps without the hasattr test: every frame with both ankles
\* sets the baseline anew
count_jumps_recalibrates(phase, count, base, th, mp, landmarks) ==
    LET analysis == [score |-> 100, errors |-> <<>>]
    IN  IF AnkleMissing(landmarks)
        THEN [rep_count |-> count, current_phase |-> phase, baseline_y |-> base,
              analysis |-> analysis]
        ELSE LET avg_ankle_y == landmarks["left_ankle"].y + landmarks["right_ankle"].y
                 base1 == Baseline(avg_ankle_y)
                 displacement == base1.v - avg_ankle_y
                 m == jump_machine(phase, count, displacement, th)
             IN  [rep_count |-> m.rep_count, current_phase |-> m.current_phase,
                  baseline_y |-> base1,
                  analysis |-> [rep_count |-> m.rep_count, phase |-> m.current_phase,
                                displacement |-> displacement] @@ analysis]

\* _count_jumps; avg_ankle_y, the baseline and the displacement in two-hundredths
count_jumps(phase, count, base, th, mp, landmarks) ==
    LET analysis == [score |-> 100, errors |-> <<>>]
    IN  IF AnkleMissing(landmarks)
        THEN [rep_count |-> count, current_phase |-> phase, baseline_y |-> base,
              analysis |-> analysis]
        ELSE LET avg_ankle_y == landmarks["left_ankle"].y + landmarks["right_ankle"].y
                 base1 == IF ~base.has THEN Baseline(avg_ankle_y) ELSE base
                 displacement == base1.v - avg_ankle_y
                 m == jump_machine(phase, count, displacement, th)
             IN  [rep_count |-> m.rep_count, current_phase |-> m.current_phase,
                  baseline_y |-> base1,
                  analysis |-> [rep_count |-> m.rep_count, phase |-> m.current_phase,
                                displacement |-> displacement] @@ analysis]

\* update whose else branch returns a full-score analysis, not {}
update_result_pullup_scored(et, phase, count, base, th, mp) ==
    LET landmarks == mediapipe_to_landmarks(mp)
        same == [rep_count |-> count, current_phase |-> phase, baseline_y |-> base,
                 analysis |-> EmptyDict]
    IN  IF IsEmpty(mp) THEN same
        ELSE IF et = SQUAT THEN count_squats(phase, count, base, th, mp, landmarks)
        ELSE IF et = PUSHUP THEN count_pushups(phase, count, base, th, mp, landmarks)
        ELSE IF et = JUMP THEN count_jumps(phase, count, base, th, mp, landmarks)
        ELSE [same EXCEPT !.analysis = [score |-> 100, errors |-> <<>>]]

\* update: the session after the call and the tuple it returns
update_result(et, phase, count, base, th, mp) ==
    LET landmarks == mediapipe_to_landmarks(mp)
        same == [rep_count |-> count, current_phase |-> phase, baseline_y |-> base,
                 analysis |-> EmptyDict]
    IN  IF IsEmpty(mp) THEN same
        ELSE IF et = SQUAT THEN count_squats(phase, count, base, th, mp, landmarks)
        ELSE IF et = PUSHUP THEN count_pushups(phase, count, base, th, mp, landmarks)
        ELSE IF et = JUMP THEN count_jumps(phase, count, base, th, mp, landmarks)
        ELSE same

-----------------------------------------------------------------------------
(* The frames of the squat cycle of the spec's testable property: knee     *)
(* angles 170, 100, 60, 170, then one more frame above 160.                *)

SquatScript == <<170, 100, 60, 170>>

\* frame mp is the i-th frame of the script for the counter
FollowsScript(i, et, mp) ==
    LET a == analyze_squat_posture(mp, mediapipe_to_landmarks(mp))
    IN  /\ et = SQUAT
        /\ ~IsEmpty(mp)
        /\ "knee_angle" \in DOMAIN a
        /\ IF i <= Len(SquatScript) THEN a.knee_angle = Deg(SquatScript[i])
           ELSE Gt(a.knee_angle, 160)

OffScript == 0 - 1

-----------------------------------------------------------------------------
(* Operations *)

ExerciseStrings == ExerciseType \cup {"plank"}
ConfidenceThresholds == {5, 7}

\* RepCounter(exercise_type, confidence_threshold): ExerciseType(s) raises
\* ValueError for a string that is no member, and there is no counter then
\* __init__ that stores the string without building the enumeration member
init_unvalidated(s, c) ==
    /\ exercise_type = s
    /\ confidence_threshold = c
    /\ rep_count = 0
    /\ current_phase = NEUTRAL
    /\ phase_history = <<>>
    /\ thresholds = get_exercise_thresholds(s)
    /\ baseline_y = NoBaseline
    /\ mp_landmarks = NoFrame
    /\ ret = [op |-> "__init__", arg |-> s]
    /\ script_pos = 0

\* __init__(exercise_type = s, confidence_threshold = c)
init(s, c) ==
    /\ exercise_type = IF s \in ExerciseType THEN s ELSE NoCounter
    /\ confidence_threshold = c
    /\ rep_count = 0
    /\ current_phase = NEUTRAL
    /\ phase_history = <<>>
    /\ thresholds = get_exercise_thresholds(s)
    /\ baseline_y = NoBaseline
    /\ mp_landmarks = NoFrame
    /\ ret = [op |-> "__init__", arg |-> s]
    /\ script_pos = 0

\* no second counter
NoTwin == [exercise_type |-> NoCounter]

\* the calls are not tallied
NoTally == [n |-> 0, gap |-> 0, neutral |-> FALSE, on |-> FALSE]

Init ==
    \E s \in ExerciseStrings, c \in ConfidenceThresholds :
        init(s, c) /\ twin = NoTwin /\ tally = NoTally

update(mp) ==
    /\ exercise_type # NoCounter
    /\ rep_count < MaxReps
    /\ LET r == update_result(exercise_type, current_phase, rep_count, baseline_y,
                              thresholds, mp)
       IN  /\ rep_count' = r.rep_count
           /\ current_phase' = r.current_phase
           /\ baseline_y' = r.baseline_y
           /\ ret' = [op |-> "update", rep_count |-> r.rep_count,
                      phase |-> r.current_phase, analysis |-> r.analysis]
    /\ mp_landmarks' = mp
    /\ script_pos' = IF script_pos # OffScript /\ script_pos <= Len(SquatScript)
                         /\ FollowsScript(script_pos + 1, exercise_type, mp)
                      THEN script_pos + 1 ELSE OffScript
    /\ UNCHANGED <<exercise_type, confidence_threshold, phase_history, thresholds>>

\* reset without the deletion of baseline_y
reset_keeps_baseline ==
    /\ exercise_type # NoCounter
    /\ rep_count' = 0
    /\ current_phase' = NEUTRAL
    /\ phase_history' = <<>>
    /\ ret' = [op |-> "reset"]
    /\ script_pos' = OffScript
    /\ UNCHANGED <<exercise_type, confidence_threshold, thresholds, mp_landmarks,
                   baseline_y>>

\* reset without self.rep_count = 0
reset_keeps_count ==
    /\ exercise_type # NoCounter
    /\ current_phase' = NEUTRAL
    /\ phase_history' = <<>>
    /\ baseline_y' = NoBaseline
    /\ ret' = [op |-> "reset"]
    /\ script_pos' = OffScript
    /\ UNCHANGED <<exercise_type, confidence_threshold, thresholds, mp_landmarks,
                   rep_count>>

\* reset with delattr(self, 'baseline_y') outside the hasattr test: the
\* call raises AttributeError when no baseline was captured
reset_unguarded_delattr ==
    /\ exercise_type # NoCounter
    /\ baseline_y.has
    /\ rep_count' = 0
    /\ current_phase' = NEUTRAL
    /\ phase_history' = <<>>
    /\ baseline_y' = NoBaseline
    /\ ret' = [op |-> "reset"]
    /\ script_pos' = OffScript
    /\ UNCHANGED <<exercise_type, confidence_threshold, thresholds, mp_landmarks>>

reset ==
    /\ exercise_type # NoCounter
    /\ rep_count' = 0
    /\ current_phase' = NEUTRAL
    /\ phase_history' = <<>>
    /\ baseline_y' = NoBaseline
    /\ ret' = [op |-> "reset"]
    /\ script_pos' = OffScript
    /\ UNCHANGED <<exercise_type, confidence_threshold, thresholds, mp_landmarks>>

\* get_statistics that reports len(self.phase_history) as total_reps
get_statistics_history_len ==
    /\ exercise_type # NoCounter
    /\ ret' = [op |-> "get_statistics", total_reps |-> Len(phase_history),
               current_phase |-> current_phase, exercise_type |-> exercise_type,
               phase_history |-> phase_history]
    /\ UNCHANGED <<exercise_type, confidence_threshold, rep_count, current_phase,
                   phase_history, thresholds, baseline_y, mp_landmarks, script_pos>>

get_statistics ==
    /\ exercise_type # NoCounter
    /\ ret' = [op |-> "get_statistics", total_reps |-> rep_count,
               current_phase |-> current_phase, exercise_type |-> exercise_type,
               phase_history |-> phase_history]
    /\ UNCHANGED <<exercise_type, confidence_threshold, rep_count, current_phase,
                   phase_history, thresholds, baseline_y, mp_landmarks, script_pos>>

Next ==
    \/ \E mp \in Frames : update(mp) /\ UNCHANGED <<twin, tally>>
    \/ reset /\ UNCHANGED <<twin, tally>>
    \/ get_statistics /\ UNCHANGED <<twin, tally>>

Spec == Init /\ [][Next]_vars

-----------------------------------------------------------------------------
(* Two counters of one kind, fed the same calls: the counter of the        *)
(* variables and a second one, the record twin, which may have been        *)
(* constructed with another confidence_threshold.                          *)

\* RepCounter(s, c) as a record of its fields and of what the call returned
NewCounter(s, c) ==
    [exercise_type |-> IF s \in ExerciseType THEN s ELSE NoCounter,
     confidence_threshold |-> c,
     rep_count |-> 0,
     current_phase |-> NEUTRAL,
     phase_history |-> <<>>,
     thresholds |-> get_exercise_thresholds(s),
     baseline_y |-> NoBaseline,
     ret |-> [op |-> "__init__", arg |-> s]]

\* update in which a landmark list with a required landmark of the exercise
\* below self.confidence_threshold is dropped like an empty one
twin_update_gated(t, mp) ==
    LET required == CASE t.exercise_type = SQUAT ->
                            {"left_hip", "left_knee", "left_ankle", "left_shoulder"}
                      [] t.exercise_type = PUSHUP ->
                            {"left_shoulder", "left_elbow", "left_wrist", "left_hip"}
                      [] t.exercise_type = JUMP -> {"left_ankle", "right_ankle"}
                      [] OTHER -> {}
        seen == IF \E j \in required : mp.vis[j] < t.confidence_threshold
                THEN [mp EXCEPT !.n = 0] ELSE mp
        r == update_result(t.exercise_type, t.current_phase, t.rep_count, t.baseline_y,
                           t.thresholds, seen)
    IN  [t EXCEPT !.rep_count = r.rep_count,
                  !.current_phase = r.current_phase,
                  !.baseline_y = r.baseline_y,
                  !.ret = [op |-> "update", rep_count |-> r.rep_count,
                           phase |-> r.current_phase, analysis |-> r.analysis]]

\* update on the second counter
twin_update(t, mp) ==
    LET r == update_result(t.exercise_type, t.current_phase, t.rep_count, t.baseline_y,
                           t.thresholds, mp)
    IN  [t EXCEPT !.rep_count = r.rep_count,
                  !.current_phase = r.current_phase,
                  !.baseline_y = r.baseline_y,
                  !.ret = [op |-> "update", rep_count |-> r.rep_count,
                           phase |-> r.current_phase, analysis |-> r.analysis]]

\* reset on the second counter
twin_reset(t) ==
    [t EXCEPT !.rep_count = 0,
              !.current_phase = NEUTRAL,
              !.phase_history = <<>>,
              !.baseline_y = NoBaseline,
              !.ret = [op |-> "reset"]]

\* get_statistics on the second counter
twin_get_statistics(t) ==
    [t EXCEPT !.ret = [op |-> "get_statistics", total_reps |-> t.rep_count,
                       current_phase |-> t.current_phase,
                       exercise_type |-> t.exercise_type,
                       phase_history |-> t.phase_history]]

InitTwin ==
    \E s \in ExerciseStrings, c \in ConfidenceThresholds, c2 \in ConfidenceThresholds :
        init(s, c) /\ twin = NewCounter(s, c2) /\ tally = NoTally

NextTwin ==
    \/ \E mp \in Frames : update(mp) /\ twin' = twin_update(twin, mp) /\ UNCHANGED tally
    \/ reset /\ twin' = twin_reset(twin) /\ UNCHANGED tally
    \/ get_statistics /\ twin' = twin_get_statistics(twin) /\ UNCHANGED tally

SpecTwin == InitTwin /\ [][NextTwin]_vars

-----------------------------------------------------------------------------
(* One counter whose calls of update are tallied: how many there were      *)
(* since construction or reset (n, which stops at MaxUpdates), how many    *)
(* since the last one that incremented rep_count (gap, which stops at 2),  *)
(* and whether the phase has been NEUTRAL since then.                      *)

\* a repetition takes three calls of update, the first one two
MaxUpdates == 3 * MaxReps

\* the tally of a counter just constructed or reset
FreshTally == [n |-> 0, gap |-> 0, neutral |-> TRUE, on |-> TRUE]

Min(a, b) == IF a <= b THEN a ELSE b

\* the tally after a call of update that took rep_count from count to
\* count1 and left the phase phase1
tally_update(t, count, count1, phase1) ==
    [n |-> Min(t.n + 1, MaxUpdates),
     gap |-> IF count1 # count THEN 0 ELSE Min(t.gap + 1, 2),
     neutral |-> IF count1 # count THEN phase1 = NEUTRAL
                 ELSE t.neutral \/ phase1 = NEUTRAL,
     on |-> TRUE]

\* the frames given to the tallied counter: every class of angle (none,
\* below both thresholds, between them, on the upper one, above it) and
\* every ankle height, with no landmark, all landmarks or a left ankle of
\* low visibility
CountFrames ==
    {mp \in Frames :
        /\ mp.n \in {0, NumNames}
        /\ mp.lean = Rest.lean
        /\ mp.bend \in {NaN, Deg(60), Deg(100), Deg(160), Deg(170)}
        /\ \A j \in Joints \ {"left_ankle"} : mp.vis[j] = 9}

InitCount ==
    \E s \in ExerciseStrings, c \in ConfidenceThresholds :
        init(s, c) /\ twin = NoTwin /\ tally = FreshTally

NextCount ==
    \/ \E mp \in CountFrames :
          /\ update(mp)
          /\ tally' = tally_update(tally, rep_count, rep_count', current_phase')
          /\ UNCHANGED twin
    \/ reset /\ tally' = FreshTally /\ UNCHANGED twin
    \/ get_statistics /\ UNCHANGED <<twin, tally>>

SpecCount == InitCount /\ [][NextCount]_vars

-----------------------------------------------------------------------------
(* What the claims speak of *)

\* the landmarks an exercise requires (required_landmarks; both ankles for jump)
RequiredJoints(et) ==
    CASE et = SQUAT  -> {"left_hip", "left_knee", "left_ankle", "left_shoulder"}
      [] et = PUSHUP -> {"left_shoulder", "left_elbow", "left_wrist", "left_hip"}
      [] et = JUMP   -> {"left_ankle", "right_ankle"}
      [] OTHER       -> {}

\* frame mp holds joint j with a visibility above 0.5
Visible(mp, j) == NameIndex(j) < mp.n /\ mp.vis[j] > 5
AllVisible(et, mp) == \A j \in RequiredJoints(et) : Visible(mp, j)

\* frame mp holds both ankles
BothAnkles(mp) == NameIndex("left_ankle") < mp.n /\ NameIndex("right_ankle") < mp.n

\* the step is a call of update
UpdateStep == ret'.op = "update"

\* the phase and the count after a frame of signal a, by the table
\* NEUTRAL -> DOWN iff a < down; DOWN -> UP, count + 1 iff a > up;
\* UP -> NEUTRAL iff a > up
AngleTable(phase, count, a, down, up) ==
    IF phase = NEUTRAL /\ Lt(a, down) THEN <<DOWN, count>>
    ELSE IF phase = DOWN /\ Gt(a, up) THEN <<UP, count + 1>>
    ELSE IF phase = UP /\ Gt(a, up) THEN <<NEUTRAL, count>>
    ELSE <<phase, count>>

\* the displacement of frame mp: baseline - average ankle y, the baseline
\* being that of the frame itself when none was captured (two-hundredths)
DisplacementOf(base, mp) == (IF base.has THEN base.v ELSE mp.ly + mp.ry) - (mp.ly + mp.ry)

\* NEUTRAL -> UP iff d > 0.1; UP -> DOWN, count + 1 iff d < -0.05;
\* DOWN -> NEUTRAL iff |d| < 0.02
JumpTable(phase, count, d) ==
    IF phase = NEUTRAL /\ d > 20 THEN <<UP, count>>
    ELSE IF phase = UP /\ d < 0 - 10 THEN <<DOWN, count + 1>>
    ELSE IF phase = DOWN /\ d > 0 - 4 /\ d < 4 THEN <<NEUTRAL, count>>
    ELSE <<phase, count>>

-----------------------------------------------------------------------------
(* Claims *)

\* C1: in every call that is not reset, for every exercise kind, rep_count
\* does not decrease and rises by at most 1; it is never negative.
C1_RepCountMonotone ==
    [][ /\ rep_count' >= 0
        /\ ret'.op # "reset" =>
              /\ rep_count' >= rep_count
              /\ rep_count' <= rep_count + 1 ]_vars

\* two jumps were counted
C1_Witness ==
    exercise_type = JUMP /\ ret.op = "update" /\ rep_count = 2

\* the counting edge of the exercise: DOWN -> UP for squat and push-up,
\* UP -> DOWN for jump
CountingEdge ==
    \/ exercise_type \in {SQUAT, PUSHUP} /\ current_phase = DOWN /\ current_phase' = UP
    \/ exercise_type = JUMP /\ current_phase = UP /\ current_phase' = DOWN

\* C2: an update changes rep_count if and only if it performs the counting
\* edge of the exercise; every other phase change leaves rep_count as it is.
C2_CountOnlyOnEdge ==
    [][ UpdateStep => ((rep_count' # rep_count) <=> CountingEdge) ]_vars

\* the squat returned to NEUTRAL in the fifth frame and the count stayed 1
C2_Witness ==
    /\ exercise_type = SQUAT /\ ret.op = "update" /\ script_pos = 5
    /\ current_phase = NEUTRAL /\ rep_count = 1

CycleEdges(et) ==
    CASE et \in {SQUAT, PUSHUP} -> {<<NEUTRAL, DOWN>>, <<DOWN, UP>>, <<UP, NEUTRAL>>}
      [] et = JUMP -> {<<NEUTRAL, UP>>, <<UP, DOWN>>, <<DOWN, NEUTRAL>>}
      [] OTHER -> {}

\* C3: every phase change made by an update is an edge of the exercise's
\* cycle.
C3_PhaseFollowsCycle ==
    [][ (UpdateStep /\ current_phase' # current_phase) =>
            <<current_phase, current_phase'>> \in CycleEdges(exercise_type) ]_vars

\* a jump went round the whole cycle: it was counted and is NEUTRAL again
C3_Witness ==
    /\ exercise_type = JUMP /\ ret.op = "update"
    /\ current_phase = NEUTRAL /\ rep_count = 1

\* C4: a squat update with the required joints visible and knee angle k goes
\* NEUTRAL -> DOWN iff k < 110, DOWN -> UP with rep_count + 1 iff k > 160,
\* UP -> NEUTRAL iff k > 160, and changes nothing otherwise; k = 110 and
\* k = 160 change nothing.
C4_SquatTable ==
    [][ (UpdateStep /\ exercise_type = SQUAT /\ AllVisible(SQUAT, mp_landmarks')) =>
          LET k == mp_landmarks'.bend
          IN  /\ <<current_phase', rep_count'>> =
                    AngleTable(current_phase, rep_count, k, 110, 160)
              /\ k \in {Deg(110), Deg(160)} => UNCHANGED <<current_phase, rep_count>>
              /\ ret'.analysis.knee_angle = k ]_vars

\* a knee angle of exactly 160 left a squat DOWN
C4_Witness ==
    /\ exercise_type = SQUAT /\ ret.op = "update"
    /\ AllVisible(SQUAT, mp_landmarks) /\ mp_landmarks.bend = Deg(160)
    /\ current_phase = DOWN

\* C5: a push-up update with the required joints visible and elbow angle e
\* follows the same table with the thresholds 90 and 160.
C5_PushupTable ==
    [][ (UpdateStep /\ exercise_type = PUSHUP /\ AllVisible(PUSHUP, mp_landmarks')) =>
          LET e == mp_landmarks'.bend
          IN  /\ <<current_phase', rep_count'>> =
                    AngleTable(current_phase, rep_count, e, 90, 160)
              /\ ret'.analysis.elbow_angle = e ]_vars

\* an elbow angle of exactly 90 left a push-up NEUTRAL, after a counted one
C5_Witness ==
    /\ exercise_type = PUSHUP /\ ret.op = "update"
    /\ AllVisible(PUSHUP, mp_landmarks) /\ mp_landmarks.bend = Deg(90)
    /\ current_phase = NEUTRAL /\ rep_count = 1

\* C6: a jump update with both ankles and displacement d goes NEUTRAL -> UP
\* iff d > 0.1, UP -> DOWN with rep_count + 1 iff d < -0.05, DOWN -> NEUTRAL
\* iff |d| < 0.02, and changes nothing otherwise; while UP, a frame with
\* d >= -0.05 changes nothing.
C6_JumpTable ==
    [][ (UpdateStep /\ exercise_type = JUMP /\ BothAnkles(mp_landmarks')) =>
          LET d == DisplacementOf(baseline_y, mp_landmarks')
          IN  /\ <<current_phase', rep_count'>> = JumpTable(current_phase, rep_count, d)
              /\ (current_phase = UP /\ d >= 0 - 10) =>
                    UNCHANGED <<current_phase, rep_count>>
              /\ ret'.analysis.displacement = d ]_vars

\* a frame at the height of the baseline left a jump UP
C6_Witness ==
    /\ exercise_type = JUMP /\ ret.op = "update"
    /\ BothAnkles(mp_landmarks)
    /\ "displacement" \in DOMAIN ret.analysis /\ ret.analysis.displacement = 0
    /\ current_phase = UP

\* the phase and the count after the i-th frame of the squat script
ScriptPhases == <<NEUTRAL, DOWN, DOWN, UP, NEUTRAL>>
ScriptCounts == <<0, 0, 0, 1, 1>>

\* C7: a fresh squat counter fed the knee angles 170, 100, 60, 170 reports
\* neutral, down, down, up with the counts 0, 0, 0, 1, and one more frame
\* above 160 gives neutral with the count still 1.
C7_SquatCycle ==
    (script_pos >= 1) =>
        /\ exercise_type = SQUAT
        /\ current_phase = ScriptPhases[script_pos]
        /\ rep_count = ScriptCounts[script_pos]
        /\ ret.op = "update" =>
              /\ ret.phase = ScriptPhases[script_pos]
              /\ ret.rep_count = ScriptCounts[script_pos]

\* the five frames were fed
C7_Witness ==
    script_pos = 5 /\ ret.op = "update"

\* C8: for squat, push-up and jump, an update whose frame lacks a required
\* landmark of the exercise, or holds it with a visibility of 0.5 or less,
\* leaves phase and rep_count unchanged and returns the unchanged values.
C8_NoTransitionOnInsufficientData ==
    [][ (/\ UpdateStep
         /\ exercise_type \in {SQUAT, PUSHUP, JUMP}
         /\ ~AllVisible(exercise_type, mp_landmarks')) =>
            /\ UNCHANGED <<current_phase, rep_count>>
            /\ ret'.rep_count = rep_count
            /\ ret'.phase = current_phase ]_vars

\* the analysis of a frame that fails the visibility gate
PoseNotVisible == [score |-> 0, errors |-> <<"Pose not clearly visible">>]

\* C9 as stated: for squat and push-up, every update whose frame lacks a
\* required joint (absent, or visibility 0.5 or less) returns score 0 and
\* the errors ["Pose not clearly visible"], and the count and the phase of
\* before the call.
C9_MissingJointScoresZero ==
    [][ (/\ UpdateStep
         /\ exercise_type \in {SQUAT, PUSHUP}
         /\ ~AllVisible(exercise_type, mp_landmarks')) =>
            /\ ret'.analysis = PoseNotVisible
            /\ ret'.rep_count = rep_count /\ ret'.phase = current_phase
            /\ UNCHANGED <<current_phase, rep_count>> ]_vars

\* C9 amended: for squat and push-up, every update whose frame holds at
\* least one landmark and lacks a required joint returns score 0 and the
\* errors ["Pose not clearly visible"]; an update whose frame holds no
\* landmark at all returns an empty analysis; both return the count and
\* the phase of before the call and leave them unchanged.
C9_MissingJointScoresZeroUnlessEmpty ==
    [][ (/\ UpdateStep
         /\ exercise_type \in {SQUAT, PUSHUP}
         /\ ~AllVisible(exercise_type, mp_landmarks')) =>
            /\ ret'.analysis = IF mp_landmarks'.n > 0 THEN PoseNotVisible ELSE <<>>
            /\ ret'.rep_count = rep_count /\ ret'.phase = current_phase
            /\ UNCHANGED <<current_phase, rep_count>> ]_vars

\* a squat that is DOWN was shown a standing pose without knee and ankle
C9_Witness ==
    /\ exercise_type = SQUAT /\ ret.op = "update"
    /\ mp_landmarks.n = 12 /\ mp_landmarks.bend = Deg(170)
    /\ current_phase = DOWN
    /\ ret.analysis = PoseNotVisible

\* C10: reset leaves rep_count = 0, phase NEUTRAL, an empty phase history
\* and no baseline; and the first frame with both ankles that a jump counter
\* without baseline sees sets the baseline to the frame's average ankle
\* height, has displacement 0 and causes no transition.
C10_ResetClears ==
    [][ /\ ret'.op = "reset" =>
              /\ rep_count' = 0
              /\ current_phase' = NEUTRAL
              /\ phase_history' = <<>>
              /\ ~baseline_y'.has
        /\ (/\ UpdateStep /\ exercise_type = JUMP
            /\ ~baseline_y.has /\ BothAnkles(mp_landmarks')) =>
              /\ baseline_y'.has
              /\ baseline_y'.v = mp_landmarks'.ly + mp_landmarks'.ry
              /\ ret'.analysis.displacement = 0
              /\ UNCHANGED <<current_phase, rep_count>> ]_vars

\* a jump counter that had seen both ankles (at 0.56) was reset
C10_Witness ==
    /\ exercise_type = JUMP /\ ret.op = "reset"
    /\ BothAnkles(mp_landmarks) /\ mp_landmarks.ly = 56
    /\ rep_count = 0 /\ ~baseline_y.has

\* the fields of the counter
Fields ==
    <<exercise_type, confidence_threshold, rep_count, current_phase, phase_history,
      thresholds, baseline_y>>

\* the fields of a counter of kind et and confidence threshold c as
\* construction leaves them
FreshFields(et, c) ==
    <<et, c, 0, NEUTRAL, <<>>, get_exercise_thresholds(et), NoBaseline>>

\* C11: reset can be called in every state of a counter and raises nothing;
\* it leaves the fields of the counter as construction of a counter of the
\* same kind leaves them (so the counter behaves from then on like a fresh
\* one, and a second reset finds nothing to change); on a fresh or an
\* already reset counter it changes no field.
C11_ResetIdempotent ==
    /\ [](exercise_type # NoCounter => ENABLED reset)
    /\ [][ret'.op = "reset" =>
              Fields' = FreshFields(exercise_type, confidence_threshold)]_vars
    /\ [][(ret'.op = "reset" /\ ret.op \in {"__init__", "reset"}) =>
              UNCHANGED Fields]_vars

\* a jump counter that was reset before it had seen any frame
C11_Witness ==
    /\ exercise_type = JUMP /\ ret.op = "reset"
    /\ mp_landmarks = NoFrame
    /\ Fields = FreshFields(JUMP, confidence_threshold)

\* C12: once a jump counter has a baseline, no call other than reset
\* changes it, whatever the frame and the phase.
C12_BaselineFixedUntilReset ==
    [][(exercise_type = JUMP /\ baseline_y.has /\ ret'.op # "reset") =>
          baseline_y' = baseline_y]_vars

\* a jump counter with baseline 0.50 has just seen ankles at 0.38 and 0.40
C12_Witness ==
    /\ exercise_type = JUMP /\ ret.op = "update"
    /\ baseline_y = Baseline(100)
    /\ BothAnkles(mp_landmarks) /\ mp_landmarks.ly + mp_landmarks.ry = 78
    /\ current_phase = UP

\* C13: a jump counter without baseline captures it on a frame exactly when
\* both ankles are present with visibility above 0.5, as the average of
\* the two ankle heights of that frame.
C13_BaselineFromVisibleAnkles ==
    [][(UpdateStep /\ exercise_type = JUMP /\ ~baseline_y.has) =>
          IF AllVisible(JUMP, mp_landmarks')
          THEN baseline_y' = Baseline(mp_landmarks'.ly + mp_landmarks'.ry)
          ELSE ~baseline_y'.has]_vars

\* C14: construction with a string outside the enumeration fails and leaves
\* no counter (no operation can ever be called on one); construction with a
\* kind of the enumeration leaves a counter of that kind with rep_count 0,
\* phase NEUTRAL, an empty phase history and no baseline.
C14_ConstructionValidates ==
    /\ ret.op = "__init__" =>
          IF ret.arg \in ExerciseType
          THEN /\ exercise_type = ret.arg
               /\ rep_count = 0 /\ current_phase = NEUTRAL
               /\ phase_history = <<>> /\ ~baseline_y.has
          ELSE /\ exercise_type = NoCounter
               /\ ~ENABLED (reset \/ get_statistics \/ \E mp \in Frames : update(mp))
    /\ exercise_type = NoCounter => (ret.op = "__init__" /\ ret.arg \notin ExerciseType)

\* RepCounter("plank") has raised ValueError
C14_Witness ==
    /\ ret.op = "__init__" /\ ret.arg = "plank"
    /\ exercise_type = NoCounter

C16_ScoreInRange ==
    /\ \A mp \in Frames \cup {NoFrame} :
          /\ analyze_squat_posture(mp, mediapipe_to_landmarks(mp)).score \in 0..100
          /\ analyze_pushup_posture(mp, mediapipe_to_landmarks(mp)).score \in 0..100
    /\ (ret.op = "update" /\ exercise_type \in {SQUAT, PUSHUP}
            /\ "score" \in DOMAIN ret.analysis) =>
          ret.analysis.score \in 0..100

\* a push-up frame with both deductions: elbow above 170, body below 160
C16_Witness ==
    /\ exercise_type = PUSHUP /\ ret.op = "update"
    /\ "score" \in DOMAIN ret.analysis
    /\ ret.analysis.score = 65
    /\ Len(ret.analysis.errors) = 2

\* the knee deduction and message of a squat frame of knee angle k
KneeDeduction(k) ==
    IF Lt(k, 70) THEN <<10, <<"Squat too deep">> >>
    ELSE IF Gt(k, 160) THEN <<15, <<"Squat not deep enough">> >>
    ELSE <<0, <<>> >>

\* the back deduction and message of a squat frame of back angle b
BackDeduction(b) ==
    IF Lt(b, 160) THEN <<20, <<"Back bent forward">> >> ELSE <<0, <<>> >>

\* C17: the analysis of a squat frame that passes the visibility gate, with
\* knee angle k and back angle b, has score 100 - (10 if k < 70, else 15 if
\* k > 160) - (20 if b < 160) and lists the knee message, then the back
\* message.
C17_SquatScore ==
    (ret.op = "update" /\ exercise_type = SQUAT /\ AllVisible(SQUAT, mp_landmarks)) =>
        LET k == ret.analysis.knee_angle
            b == ret.analysis.back_angle
        IN  /\ k = mp_landmarks.bend /\ b = mp_landmarks.lean
            /\ ret.analysis.score = 100 - KneeDeduction(k)[1] - BackDeduction(b)[1]
            /\ ret.analysis.errors = KneeDeduction(k)[2] \o BackDeduction(b)[2]

\* a squat frame with knee angle 60 and back angle 150: both deductions
C17_Witness ==
    /\ exercise_type = SQUAT /\ ret.op = "update"
    /\ AllVisible(SQUAT, mp_landmarks)
    /\ mp_landmarks.bend = Deg(60) /\ mp_landmarks.lean = Deg(150)
    /\ ret.analysis.score = 70
    /\ ret.analysis.errors = <<"Squat too deep", "Back bent forward">>

\* the count and the phase the most recent call returned or left: those of
\* the last update, 0 and NEUTRAL after construction or reset
LastReturned ==
    CASE ret.op = "update" -> <<ret.rep_count, ret.phase>>
      [] ret.op = "get_statistics" -> <<ret.total_reps, ret.current_phase>>
      [] OTHER -> <<0, NEUTRAL>>

\* C18: get_statistics changes no field of the counter; its total_reps and
\* current_phase are the count and the phase the most recent update
\* returned (0 and NEUTRAL after construction or reset), its exercise_type
\* is the counter's, and its phase_history is empty, as the counter's
\* phase history is in every state.
C18_StatisticsReadOnly ==
    /\ [](phase_history = <<>>)
    /\ [][ret'.op = "get_statistics" =>
              /\ UNCHANGED Fields
              /\ ret'.total_reps = rep_count /\ ret'.current_phase = current_phase
              /\ <<ret'.total_reps, ret'.current_phase>> = LastReturned
              /\ ret'.exercise_type = exercise_type
              /\ ret'.phase_history = <<>>]_vars

\* statistics of a squat counter after its first repetition
C18_Witness ==
    /\ ret.op = "get_statistics" /\ exercise_type = SQUAT
    /\ ret.total_reps = 1 /\ ret.current_phase = UP
    /\ rep_count = 1 /\ current_phase = UP

\* the phases the counting logic uses
UsedPhases == {NEUTRAL, DOWN, UP}

\* C19: the phase of a counter is NEUTRAL, DOWN or UP in every state, and
\* so is every phase update or get_statistics returns; EXTENDED never is.
C19_NeverExtended ==
    /\ current_phase \in UsedPhases
    /\ ret.op = "update" =>
          /\ ret.phase \in UsedPhases
          /\ "phase" \in DOMAIN ret.analysis => ret.analysis.phase \in UsedPhases
    /\ ret.op = "get_statistics" => ret.current_phase \in UsedPhases

\* statistics of a jump counter that has landed: phase DOWN after a count
C19_Witness ==
    /\ exercise_type = JUMP /\ ret.op = "get_statistics"
    /\ ret.current_phase = DOWN /\ ret.total_reps = 1

C21_DegenerateAngleIsZero ==
    (/\ ret.op = "update" /\ exercise_type = PUSHUP
     /\ AllVisible(PUSHUP, mp_landmarks)
     /\ ~Present(mp_landmarks, "left_knee")) =>
        /\ "body_angle" \in DOMAIN ret.analysis
        /\ ret.analysis.body_angle = Deg(0)
        /\ ret.analysis.elbow_angle = mp_landmarks.bend

\* the signal is a number from lo to hi, both included
Between(a, lo, hi) == ~a.nan /\ lo <= a.v /\ a.v <= hi

\* the down and the up threshold of the kind
Band(et) == IF et = SQUAT THEN <<110, 160>> ELSE <<90, 160>>

\* C22: a squat or push-up frame with the required joints visible whose
\* angle lies from the down to the up threshold (110..160, 90..160), both
\* included, changes neither phase nor rep_count, whatever the phase; DOWN
\* is entered only on an angle below the down threshold and a repetition
\* is counted only from DOWN on an angle above the up threshold.
C22_DeadBand ==
    [][ (/\ UpdateStep /\ exercise_type \in {SQUAT, PUSHUP}
         /\ AllVisible(exercise_type, mp_landmarks')) =>
          LET a == mp_landmarks'.bend
              down == Band(exercise_type)[1]
              up == Band(exercise_type)[2]
          IN  /\ Between(a, down, up) => UNCHANGED <<current_phase, rep_count>>
              /\ (current_phase' = DOWN /\ current_phase # DOWN) => Lt(a, down)
              /\ rep_count' # rep_count =>
                    /\ current_phase = DOWN /\ Gt(a, up)
                    /\ rep_count' = rep_count + 1 ]_vars

\* an elbow angle of exactly 160 left a push-up DOWN and uncounted
C22_Witness ==
    /\ exercise_type = PUSHUP /\ ret.op = "update"
    /\ AllVisible(PUSHUP, mp_landmarks) /\ mp_landmarks.bend = Deg(160)
    /\ current_phase = DOWN /\ rep_count = 0

\* C23: a jump counter whose phase is not NEUTRAL or whose rep_count is
\* above 0 has a baseline; the update that captures the baseline has
\* displacement 0 and changes neither phase nor rep_count.
C23_JumpNeedsBaseline ==
    /\ [](exercise_type = JUMP =>
             ((current_phase # NEUTRAL \/ rep_count > 0) => baseline_y.has))
    /\ [][(UpdateStep /\ exercise_type = JUMP /\ ~baseline_y.has /\ baseline_y'.has) =>
              /\ ret'.analysis.displacement = 0
              /\ UNCHANGED <<current_phase, rep_count>>
              /\ current_phase = NEUTRAL /\ rep_count = 0]_vars

\* a jump counter back in NEUTRAL after its first counted jump
C23_Witness ==
    /\ exercise_type = JUMP /\ ret.op = "update"
    /\ rep_count = 1 /\ current_phase = NEUTRAL
    /\ baseline_y.has

\* C24: for squat, push-up and jump, an update that increments rep_count
\* after an earlier one was preceded, since that earlier one, by a NEUTRAL
\* phase and by at least two updates that did not increment it; and after
\* n updates since construction or reset rep_count <= (n + 1) div 3.
C24_RepsNeverAdjacent ==
    /\ [](exercise_type \in {SQUAT, PUSHUP, JUMP} =>
             rep_count <= (tally.n + 1) \div 3)
    /\ [][(UpdateStep /\ rep_count' # rep_count /\ rep_count >= 1) =>
              /\ tally.neutral
              /\ tally.gap >= 2]_vars

\* a push-up counter at its second repetition after five updates
C24_Witness ==
    /\ exercise_type = PUSHUP /\ ret.op = "update"
    /\ rep_count = 2 /\ tally.n = 5
    /\ tally.gap = 0 /\ current_phase = UP

====
